---- MODULE Spec2Model ----
(***************************************************************************)
(* Model of mothra/accounts/models.py: the Grade model (an IntegerField    *)
(* `level` carrying MaxValueValidator(12) and MinValueValidator(-1), a     *)
(* CharField `name` with max_length=2, __str__ returning the name and      *)
(* Meta.ordering = ("level",)).                                            *)
(*                                                                         *)
(* The declarations are given the meaning django.db.models gives them:     *)
(*   - Grade(level=.., name=..) and attribute assignment store the value   *)
(*     without running any validator;                                      *)
(*   - full_clean() runs Field.clean() on every field (blank check, then   *)
(*     the field's validators), then validate_unique(), and raises one     *)
(*     ValidationError holding the errors per field;                       *)
(*   - save() INSERTs (pk unset) or UPDATEs (pk set) and never calls       *)
(*     full_clean(); only the database's own column constraints apply;     *)
(*   - Grade.objects.all() is SELECT ... ORDER BY <Meta.ordering>.         *)
(*                                                                         *)
(* A name is a sequence of one-character strings, so that its length and   *)
(* its lexicographic order are computed.  Levels and names are drawn from  *)
(* integers and strings only (no None, no value of another type).          *)
(***************************************************************************)
EXTENDS Integers, Sequences, FiniteSets

VARIABLES inst, db, backend, ret

vars == <<inst, db, backend, ret>>

(***************************************************************************)
(* Bounds of the model.                                                    *)
(***************************************************************************)
\* how far beyond the validators' limits the level inputs reach
LevelMargin == 1
\* longest name given as input (one more than the column holds)
MaxNameLen == 3
\* rows the table may hold in SpecTable
MaxRows == 2

(***************************************************************************)
(* Constants of the declaration.                                           *)
(***************************************************************************)
\* MaxValueValidator(12)
MaxLevel == 12
\* MinValueValidator(-1)
MinLevel == -1
\* CharField(max_length=2)
name_max_length == 2

\* Neither field passes blank=True: Field.blank keeps its default.
name_blank_true == TRUE
name_blank == FALSE

\* Neither field passes unique=True and Meta declares no unique_together.
unique_fields_level == {"level"}
unique_fields == {}

\* Meta.ordering; ("name",) is the ordering of the initial version.
ordering_by_name == <<"name">>
ordering == <<"level">>

(***************************************************************************)
(* Input sets.                                                             *)
(***************************************************************************)
Levels == (MinLevel - LevelMargin)..(MaxLevel + LevelMargin)

SampleChars == <<"1", "2", "K", "5">>
NameOfLen(n) == [i \in 1..n |-> SampleChars[((i - 1) % 4) + 1]]
Names == {NameOfLen(n) : n \in 0..MaxNameLen}

\* SpecTable: the levels and labels of a few grades, two of them outside
\* the validators' range, and labels whose lexicographic order differs
\* from the numeric one ("10" sorts before "2").
TableLevels == {MinLevel - LevelMargin, 2, 10, MaxLevel + LevelMargin}
TableNames == {<<"2">>, <<"1", "0">>}

Backends == {"sqlite", "postgresql"}

(***************************************************************************)
(* django.core.validators: each validator yields the error codes it        *)
(* raises for the value (compare(a, b) of the validator class).            *)
(***************************************************************************)
MaxValueValidator_ge(limit, v) == IF v >= limit THEN {"max_value"} ELSE {}
MaxValueValidator(limit, v) == IF v > limit THEN {"max_value"} ELSE {}

MinValueValidator_lenient(limit, v) == IF v < limit - 1 THEN {"min_value"} ELSE {}
MinValueValidator(limit, v) == IF v < limit THEN {"min_value"} ELSE {}

MaxLengthValidator_ge(limit, s) == IF Len(s) >= limit THEN {"max_length"} ELSE {}
MaxLengthValidator(limit, s) == IF Len(s) > limit THEN {"max_length"} ELSE {}

\* validators=[MaxValueValidator(12), MinValueValidator(-1)]; run_validators
\* runs every validator of the list and collects the errors.
level_validators_no_max(v) == MinValueValidator(MinLevel, v)
level_validators_no_min(v) == MaxValueValidator(MaxLevel, v)
level_validators(v) ==
    MaxValueValidator(MaxLevel, v) \cup MinValueValidator(MinLevel, v)

\* CharField adds MaxLengthValidator(max_length) to its validators.
name_validators(s) == MaxLengthValidator(name_max_length, s)

\* Field.clean for level: an integer is never one of the empty values
\* (None, '', [], (), {}), so the validators always run.
clean_level(v) == {<<"level", c>> : c \in level_validators(v)}

\* Field.clean for name: validate() raises 'blank' for the empty string
\* when blank is False, before any validator runs; otherwise the validators.
clean_name(s) ==
    IF s = <<>>
    THEN IF name_blank THEN {} ELSE {<<"name", "blank">>}
    ELSE {<<"name", c>> : c \in name_validators(s)}

\* Model.clean_fields
clean_fields(g) == clean_level(g.level) \cup clean_name(g.name)

FieldValue(f, r) == IF f = "level" THEN <<"level", r.level>> ELSE <<"name", r.name>>

\* a row other than g's own holds the same value in unique field f
UniqueClash(f, g, rows) ==
    \E k \in 1..Len(rows) : k # g.pk /\ FieldValue(f, rows[k]) = FieldValue(f, g)

\* Model.validate_unique, skipping the fields that already failed
validate_unique(g, rows, errs) ==
    {<<f, "unique">> : f \in {u \in unique_fields :
        /\ \A e \in errs : e[1] # u
        /\ UniqueClash(u, g, rows)}}

\* Model.full_clean: the errors of the ValidationError it raises
full_clean(g, rows) ==
    LET errs == clean_fields(g) IN errs \cup validate_unique(g, rows, errs)

\* clean_fields assigns each cleaned value back to its attribute; to_python
\* of an int is that int and of a str that str.
cleaned_truncating(g) ==
    [g EXCEPT !.name = SubSeq(@, 1, IF Len(@) < name_max_length THEN Len(@) ELSE name_max_length)]
cleaned(g) == g

\* Grade.__str__
Grade_str_default(g) == <<"G", "r", "a", "d", "e">>
Grade_str(g) == g.name

(***************************************************************************)
(* Ordering of a queryset.                                                 *)
(***************************************************************************)
CharCode(c) ==
    CASE c = "0" -> 48 [] c = "1" -> 49 [] c = "2" -> 50
      [] c = "5" -> 53 [] c = "K" -> 75

Min2(a, b) == IF a < b THEN a ELSE b

\* -1, 0, 1 as a sorts before, with, after b as strings
LexCmp(a, b) ==
    LET n == Min2(Len(a), Len(b))
        diff == {i \in 1..n : a[i] # b[i]}
    IN  IF diff = {}
        THEN IF Len(a) < Len(b) THEN -1 ELSE IF Len(a) > Len(b) THEN 1 ELSE 0
        ELSE LET i == CHOOSE j \in diff : \A k \in diff : j <= k
             IN  IF CharCode(a[i]) < CharCode(b[i]) THEN -1 ELSE 1

IntCmp(a, b) == IF a < b THEN -1 ELSE IF a > b THEN 1 ELSE 0

FieldCmp(f, r1, r2) ==
    IF f = "level" THEN IntCmp(r1.level, r2.level) ELSE LexCmp(r1.name, r2.name)

\* ORDER BY fields[1], fields[2], ...
RECURSIVE KeyCmp(_, _, _)
KeyCmp(fields, r1, r2) ==
    IF fields = <<>> THEN 0
    ELSE LET c == FieldCmp(Head(fields), r1, r2)
         IN  IF c # 0 THEN c ELSE KeyCmp(Tail(fields), r1, r2)

\* the sequences of primary keys a SELECT ... ORDER BY may return: every
\* row once, no row before one that sorts strictly before it; the order
\* of rows with equal keys is the database's choice.
Listings(rows) ==
    LET n == Len(rows) IN
    {p \in [1..n -> 1..n] :
        /\ \A i, j \in 1..n : i # j => p[i] # p[j]
        /\ \A i, j \in 1..n : i < j => KeyCmp(ordering, rows[p[i]], rows[p[j]]) <= 0}

(***************************************************************************)
(* The database.                                                           *)
(***************************************************************************)
Row(g) == [level |-> g.level, name |-> g.name]

\* the varchar(2) column: PostgreSQL refuses a longer string (DataError),
\* SQLite stores it.  The integer column holds every level of the model.
ColumnAccepts(b, g) == b = "sqlite" \/ Len(g.name) <= name_max_length

\* a unique index, were one declared, refuses a duplicate
IndexAccepts(g, rows) == \A f \in unique_fields : ~UniqueClash(f, g, rows)

(***************************************************************************)
(* State.                                                                  *)
(*   inst     the Grade instance the caller holds (pk = 0: not saved)      *)
(*   db       the table, row k being the row of primary key k              *)
(*   backend  the database engine of the deployment                        *)
(*   ret      what the last operation returned or raised                   *)
(***************************************************************************)
Ret(op, exc, errors, text, listing) ==
    [op |-> op, exc |-> exc, errors |-> errors, text |-> text, listing |-> listing]

Returned(op) == Ret(op, "none", {}, <<>>, <<>>)

InitOver(LS, NS) ==
    /\ \E l \in LS, n \in NS : inst = [level |-> l, name |-> n, pk |-> 0]
    /\ db = <<>>
    /\ backend \in Backends
    /\ ret = Returned("construct")

\* Grade(level=l, name=n)
Construct(LS, NS) ==
    /\ \E l \in LS, n \in NS : inst' = [level |-> l, name |-> n, pk |-> 0]
    /\ ret' = Returned("construct")
    /\ UNCHANGED <<db, backend>>

\* grade.level = l
SetLevel(LS) ==
    /\ \E l \in LS : inst' = [inst EXCEPT !.level = l]
    /\ ret' = Returned("set")
    /\ UNCHANGED <<db, backend>>

\* grade.name = n
SetName(NS) ==
    /\ \E n \in NS : inst' = [inst EXCEPT !.name = n]
    /\ ret' = Returned("set")
    /\ UNCHANGED <<db, backend>>

\* grade.full_clean()
FullClean ==
    LET errs == full_clean(inst, db) IN
    /\ inst' = cleaned(inst)
    /\ ret' = Ret("full_clean",
                  IF errs = {} THEN "none" ELSE "ValidationError",
                  errs, <<>>, <<>>)
    /\ UNCHANGED <<db, backend>>

\* grade.save()
Save(cap) ==
    /\ inst.pk # 0 \/ Len(db) < cap
    /\ IF ~ColumnAccepts(backend, inst)
       THEN /\ ret' = Ret("save", "DataError", {}, <<>>, <<>>)
            /\ UNCHANGED <<inst, db>>
       ELSE IF ~IndexAccepts(inst, db)
       THEN /\ ret' = Ret("save", "IntegrityError", {}, <<>>, <<>>)
            /\ UNCHANGED <<inst, db>>
       ELSE /\ ret' = Returned("save")
            /\ IF inst.pk = 0
               THEN /\ db' = Append(db, Row(inst))
                    /\ inst' = [inst EXCEPT !.pk = Len(db) + 1]
               ELSE /\ db' = [db EXCEPT ![inst.pk] = Row(inst)]
                    /\ inst' = inst
    /\ UNCHANGED backend

\* Grade.objects.get(pk=k)
Get ==
    /\ \E k \in 1..Len(db) :
          inst' = [level |-> db[k].level, name |-> db[k].name, pk |-> k]
    /\ ret' = Returned("get")
    /\ UNCHANGED <<db, backend>>

\* str(grade)
Str ==
    /\ ret' = Ret("str", "none", {}, Grade_str(inst), <<>>)
    /\ UNCHANGED <<inst, db, backend>>

\* list(Grade.objects.all())
List ==
    /\ \E p \in Listings(db) : ret' = Ret("list", "none", {}, <<>>, p)
    /\ UNCHANGED <<inst, db, backend>>

\* One record through its life, over every level and name of the inputs.
Init == InitOver(Levels, Names)

Next ==
    \/ Construct(Levels, Names)
    \/ SetLevel(Levels)
    \/ SetName(Names)
    \/ FullClean
    \/ Save(1)
    \/ Get
    \/ Str
    \/ List

Spec == Init /\ [][Next]_vars

\* A table of several rows, over the levels and labels of a few grades.
InitTable == InitOver(TableLevels, TableNames)

NextTable ==
    \/ Construct(TableLevels, TableNames)
    \/ SetLevel(TableLevels)
    \/ SetName(TableNames)
    \/ FullClean
    \/ Save(MaxRows)
    \/ Get
    \/ Str
    \/ List

SpecTable == InitTable /\ [][NextTable]_vars

TypeOK ==
    /\ inst.level \in Int
    /\ inst.pk \in 0..Len(db)
    /\ backend \in Backends
    /\ ret.exc \in {"none", "ValidationError", "DataError", "IntegrityError"}

(***************************************************************************)
(* Properties.                                                             *)
(***************************************************************************)
LevelInRange(v) == MinLevel <= v /\ v <= MaxLevel

\* C1 (as stated): in every reachable state every Grade record, in memory
\* or persisted, has -1 <= level <= 12.
C1_LevelAlwaysInRange ==
    /\ LevelInRange(inst.level)
    /\ \A k \in 1..Len(db) : LevelInRange(db[k].level)

\* C1 (amended): a record on which full_clean() has just succeeded has
\* -1 <= level <= 12, and so has the row a save() taken right after that
\* validation writes.
C1_ValidatedLevelInRange ==
    [][(ret.op = "full_clean" /\ ret.exc = "none") =>
          /\ LevelInRange(inst.level)
          /\ (ret'.op = "save" /\ ret'.exc = "none") =>
                /\ inst'.pk \in 1..Len(db')
                /\ LevelInRange(db'[inst'.pk].level)]_vars

C1_Witness ==
    /\ ret.op = "save" /\ ret.exc = "none"
    /\ inst.pk = 1 /\ Len(db) = 1
    /\ db[1].level = MaxLevel
    /\ clean_fields(inst) = {}

\* C2 (as stated): a save() of a Grade whose level is outside [-1, 12] is
\* rejected with a validation error and leaves the persisted rows as they
\* were.
C2_SaveRejectsOutOfRange ==
    [][(ret'.op = "save" /\ ~LevelInRange(inst.level)) =>
          /\ ret'.exc = "ValidationError"
          /\ db' = db]_vars

\* C2 (amended): full_clean() of a Grade whose level is outside [-1, 12]
\* raises a ValidationError and leaves the persisted rows as they were.
C2_ValidationRejectsOutOfRange ==
    [][(ret'.op = "full_clean" /\ ~LevelInRange(inst.level)) =>
          /\ ret'.exc = "ValidationError"
          /\ db' = db]_vars

C2_Witness ==
    /\ ret.op = "full_clean" /\ ret.exc = "ValidationError"
    /\ inst.pk = 1 /\ Len(db) = 1
    /\ inst.level = MaxLevel + 1
    /\ LevelInRange(db[1].level)

\* C3: for every level in [-1, 12], neither validator of level reports an
\* error when the Grade is validated, and save() of the Grade stores a row
\* with that level (the name being one the column holds).
C3_ValidLevelSucceeds ==
    [][LevelInRange(inst.level) =>
          /\ ret'.op = "full_clean" => \A e \in ret'.errors : e[1] # "level"
          /\ (ret'.op = "save" /\ ColumnAccepts(backend, inst)) =>
                /\ ret'.exc = "none"
                /\ inst'.pk \in 1..Len(db')
                /\ db'[inst'.pk].level = inst.level]_vars

C3_Witness ==
    /\ ret.op = "save" /\ ret.exc = "none"
    /\ Len(db) = 1 /\ db[1].level = MinLevel
    /\ inst.pk = 1 /\ inst.level = MinLevel

\* C4: validation of a Grade whose level is below -1 or above 12 fails with
\* a ValidationError that holds an error for the level field: min_value
\* below -1, max_value above 12.
C4_OutOfRangeFails ==
    (ret.op = "full_clean" /\ ~LevelInRange(inst.level)) =>
        /\ ret.exc = "ValidationError"
        /\ inst.level < MinLevel => <<"level", "min_value">> \in ret.errors
        /\ inst.level > MaxLevel => <<"level", "max_value">> \in ret.errors

C4_Witness ==
    /\ ret.op = "full_clean"
    /\ inst.level = MinLevel - 1
    /\ ret.errors = {<<"level", "min_value">>}

\* C6: validation fails with a max_length error on name for every name of
\* 3 characters or more, and reports no max_length error for a name of 1
\* or 2 characters.
C6_NameLength ==
    ret.op = "full_clean" =>
        /\ Len(inst.name) >= 3 =>
              /\ ret.exc = "ValidationError"
              /\ <<"name", "max_length">> \in ret.errors
        /\ Len(inst.name) \in {1, 2} => <<"name", "max_length">> \notin ret.errors

C6_Witness ==
    /\ ret.op = "full_clean"
    /\ Len(inst.name) = 3
    /\ ret.errors = {<<"name", "max_length">>}

\* C7: str(grade) is the name of the Grade, whatever its level, and taking
\* it changes neither the instance nor the table.
C7_StrIsName ==
    [][ret'.op = "str" =>
          /\ ret'.text = inst.name
          /\ inst' = inst
          /\ db' = db]_vars

C7_Witness ==
    /\ ret.op = "str"
    /\ inst.name = <<"1", "2">>
    /\ ret.text = <<"1", "2">>
    /\ inst.level = MaxLevel + 1

\* C8 (as stated): for every level in [-1, 12], a Grade whose name has at
\* most 2 characters, the empty string included, passes validation.
C8_ShortNamePasses ==
    (ret.op = "full_clean" /\ LevelInRange(inst.level) /\ Len(inst.name) <= 2) =>
        ret.exc = "none"

\* C8 (amended): for every level in [-1, 12], a Grade whose name has 1 or 2
\* characters passes validation, and the empty name is rejected as blank.
C8_NonBlankShortNamePasses ==
    (ret.op = "full_clean" /\ LevelInRange(inst.level)) =>
        /\ Len(inst.name) \in {1, 2} => ret.exc = "none" /\ ret.errors = {}
        /\ inst.name = <<>> =>
              ret.exc = "ValidationError" /\ ret.errors = {<<"name", "blank">>}

C8_Witness ==
    /\ ret.op = "full_clean" /\ ret.exc = "ValidationError"
    /\ LevelInRange(inst.level)
    /\ inst.name = <<>>

C5_ListingAscendingByLevel ==
    ret.op = "list" =>
        /\ Len(ret.listing) = Len(db)
        /\ \A k \in 1..Len(db) : \E i \in 1..Len(ret.listing) : ret.listing[i] = k
        /\ \A i \in 1..(Len(ret.listing) - 1) :
              db[ret.listing[i]].level <= db[ret.listing[i + 1]].level

\* the grade of level 2 is listed before the grade of level 10 saved
\* before it, though "10" sorts before "2"
C5_Witness ==
    /\ ret.op = "list"
    /\ Len(db) = 2
    /\ db[1] = [level |-> 10, name |-> <<"1", "0">>]
    /\ db[2] = [level |-> 2, name |-> <<"2">>]
    /\ ret.listing = <<2, 1>>

\* C10: save() of a new Grade whose level or name equals that of a row
\* already in the table succeeds and adds a row.
C10_DuplicatesAccepted ==
    [][(/\ ret'.op = "save"
        /\ inst.pk = 0
        /\ ColumnAccepts(backend, inst)
        /\ \E k \in 1..Len(db) : db[k].level = inst.level \/ db[k].name = inst.name) =>
          /\ ret'.exc = "none"
          /\ db' = Append(db, Row(inst))]_vars

\* two rows share level and name, and the listing has them in the order
\* opposite to that of their insertion
C10_Witness ==
    /\ ret.op = "list"
    /\ Len(db) = 2
    /\ db[1] = db[2]
    /\ ret.listing = <<2, 1>>

====
